---------------------------- MODULE Spec2Model ----------------------------
(***************************************************************************)
(* A model of the mas-sdk client: the Sui schema client (src/sui/schema.ts)*)
(* the Aptos attestation client (src/aptos/aas.ts) and the address         *)
(* resolver (src/utils.ts).  The chain the client talks to is the          *)
(* environment: its objects, views and transaction status are state the    *)
(* client reads or changes only through the SDK calls the source makes.    *)
(***************************************************************************)
EXTENDS Integers, Sequences, FiniteSets, TLC

VARIABLES
    \* ---- write path: one call of a write operation ----
    wOp,        \* the operation called, "none" before the call
    wPc,        \* where the async method stands
    wLog,       \* the SDK calls the method has made and the failures it saw
    wError,     \* the error the caller's promise rejected with, "none" otherwise
    wReceipt,   \* the call that produced the value returned to the caller
    chainTx,    \* the submitted transaction as the chain sees it
    \* ---- getSchemas: one call ----
    tableEntries,  \* chain: the dynamic fields of the schema table, in listing order
    lsPc,          \* where getSchemas stands
    lsData,        \* tableData.data, the entries the listing call returned
    lsHasNext,     \* tableData.hasNextPage as returned by the listing call
    fetch,         \* the per-entry promises made by tableData.data.map
    lsResult,      \* the list getSchemas resolved with, "none" otherwise
    lsError,       \* the failure getSchemas rejected with, "none" otherwise
    \* ---- address resolution and the registry read path ----
    packages,      \* the PACKAGES configuration object
    regObject,     \* chain: the registry object ("absent", "malformed", "ok")
    regVersion,    \* chain: the registry's version pointer
    dynFields,     \* chain: the versions that have a dynamic field
    fieldShape,    \* chain: the shape of the dynamic fields' content
    rgFn,          \* the function called, "none" before the call
    rgNetwork,     \* its network argument
    rgPc,          \* where the call stands
    rgRegistry,    \* the SchemaRegistry read by getSchemaRegistry
    rgOutcome,     \* what the call returned or threw
    \* ---- records: schemas and attestations on chain, and reads of them ----
    suiObjects,         \* chain (Sui): object id -> object
    aptosSchemas,       \* chain (Aptos): address -> schema resource
    aptosAttestations,  \* chain (Aptos): address -> attestation resource
    rdWritten,          \* the schema the client created: chain, key, bytes
    rdCall,             \* the last read: function, key, whether the key existed
    rdOutcome,          \* what the last read returned or threw
    \* ---- one attestation's life on the Aptos chain ----
    chainNow,       \* chain: the ledger time
    atTx,           \* the transaction the client submitted, not yet committed
    atRevokedAt,    \* the ledger time at which a revocation committed, 0 if none
    atReads         \* what each getAttestation that returned saw

varsW == <<wOp, wPc, wLog, wError, wReceipt, chainTx>>

varsL == <<tableEntries, lsPc, lsData, lsHasNext, fetch, lsResult, lsError>>

varsG ==
    <<packages, regObject, regVersion, dynFields, fieldShape,
      rgFn, rgNetwork, rgPc, rgRegistry, rgOutcome>>

varsR == <<suiObjects, aptosSchemas, aptosAttestations, rdWritten, rdCall, rdOutcome>>

varsA == <<chainNow, atTx, atRevokedAt, atReads>>

vars == <<varsW, varsL, varsG, varsR, varsA>>

\* What a call gave its caller: a value, or the error it threw.
Ok(v) == [kind |-> "ok", value |-> v, error |-> "none"]

Err(e) == [kind |-> "error", value |-> "none", error |-> e]

NoOutcome == [kind |-> "none", value |-> "none", error |-> "none"]

NoRegistry == [id |-> "none", version |-> [id |-> "none", version |-> 0]]

(***************************************************************************)
(* Write path.                                                             *)
(***************************************************************************)
SuiWaitingOps == {"new", "newWithResolver"}

SuiDirectOps ==
    {"newResolverBuilder", "addResolver", "newRequest", "startAttest", "finishAttest"}

SuiOps == SuiWaitingOps \cup SuiDirectOps

AptosOps == {"createSchema", "createAttestation", "revokeAttestation"}

\* The operations whose body awaits waitForTransaction before returning.
WaitsForTransaction(op) == op \in SuiWaitingOps \cup AptosOps

InitW ==
    /\ wOp = "none"
    /\ wPc = "idle"
    /\ wLog = << >>
    /\ wError = "none"
    /\ wReceipt = "none"
    /\ chainTx = "none"

\* A Sui write method up to its first await: the transaction is built
\* synchronously (new Transaction, moveCall, transferObjects) and
\* signAndExecuteTransaction is invoked.  A throw while building (such as
\* getSchemaRegistryId's 'Invalid network') rejects the call at once.
CallSui(op, buildOk) ==
    /\ wPc = "idle"
    /\ op \in SuiOps
    /\ wOp' = op
    /\ IF buildOk
         THEN /\ wPc' = "submitting"
              /\ wLog' = <<"build", "submit">>
              /\ wError' = "none"
         ELSE /\ wPc' = "rejected"
              /\ wLog' = <<"build", "buildFailed">>
              /\ wError' = "buildFailed"
    /\ UNCHANGED <<wReceipt, chainTx>>

\* An Aptos write method up to its first await: transaction.build.simple.
CallAptos(op) ==
    /\ wPc = "idle"
    /\ op \in AptosOps
    /\ wOp' = op
    /\ wPc' = "building"
    /\ wLog' = <<"build">>
    /\ UNCHANGED <<wError, wReceipt, chainTx>>

\* build.simple resolved: signAndSubmitTransaction is invoked.
BuildResolve ==
    /\ wPc = "building"
    /\ wPc' = "submitting"
    /\ wLog' = Append(wLog, "submit")
    /\ UNCHANGED <<wOp, wError, wReceipt, chainTx>>

\* build.simple rejected: the await throws out of the method.
BuildReject ==
    /\ wPc = "building"
    /\ wPc' = "rejected"
    /\ wLog' = Append(wLog, "buildFailed")
    /\ wError' = "buildFailed"
    /\ UNCHANGED <<wOp, wReceipt, chainTx>>

\* The pc a method moves to when its submission resolved: the waiting
\* operations invoke waitForTransaction, the others return the submission's
\* response as it is.
AfterSubmit(op) == IF WaitsForTransaction(op) THEN "waiting" ELSE "returned"

\* signAndExecuteTransaction / signAndSubmitTransaction resolved: the chain
\* holds the transaction, not yet reported final.
SubmitResolve ==
    /\ wPc = "submitting"
    /\ chainTx' = "pending"
    /\ wPc' = AfterSubmit(wOp)
    /\ IF AfterSubmit(wOp) = "waiting"
         THEN /\ wLog' = Append(wLog, "wait")
              /\ UNCHANGED wReceipt
         ELSE /\ wLog' = wLog
              /\ wReceipt' = "submit"
    /\ UNCHANGED <<wOp, wError>>

\* A retry layer: the rejected submission is made again.
SubmitRejectRetry(reached) ==
    /\ wPc = "submitting"
    /\ chainTx' = IF reached THEN "pending" ELSE chainTx
    /\ wLog' = wLog \o <<"submitFailed", "submit">>
    /\ UNCHANGED <<wOp, wPc, wError, wReceipt>>

\* The submission rejected (the request may or may not have reached the
\* chain): the await throws out of the method.
SubmitReject(reached) ==
    /\ wPc = "submitting"
    /\ chainTx' = IF reached THEN "pending" ELSE "none"
    /\ wPc' = "rejected"
    /\ wLog' = Append(wLog, "submitFailed")
    /\ wError' = "submitFailed"
    /\ UNCHANGED <<wOp, wReceipt>>

\* The chain finalizes the transaction it holds: executed, or aborted by
\* the on-chain program.  Either way the transaction is final.
ChainFinalize(success) ==
    /\ chainTx = "pending"
    /\ chainTx' = IF success THEN "executed" ELSE "aborted"
    /\ UNCHANGED <<wOp, wPc, wLog, wError, wReceipt>>

Final(tx) == tx \in {"executed", "aborted"}

\* waitForTransaction resolved: the chain reported the transaction final
\* and its response is the value the method returns.  The Sui client
\* resolves with the effects whatever their status.
WaitResolve ==
    /\ wPc = "waiting"
    /\ \/ wOp \in SuiOps /\ Final(chainTx)
       \/ wOp \in AptosOps /\ chainTx = "executed"
    /\ wPc' = "returned"
    /\ wReceipt' = "wait"
    /\ UNCHANGED <<wOp, wLog, wError, chainTx>>

\* waitForTransaction rejected: a timeout or transport failure, or (Aptos)
\* the transaction committed with a failed status.
WaitReject ==
    /\ wPc = "waiting"
    /\ wPc' = "rejected"
    /\ wLog' = Append(wLog, "waitFailed")
    /\ wError' = "waitFailed"
    /\ UNCHANGED <<wOp, wReceipt, chainTx>>

IdleW == InitW

(***************************************************************************)
(* getSchemas (src/sui/schema.ts): list the table's dynamic fields, fetch  *)
(* every entry concurrently, join with Promise.all.                        *)
(***************************************************************************)
\* The most entries a table holds in the model.
MaxEntries == 4

\* The most entries one page of the node's dynamic-field listing carries
\* (the node's page size, scaled down).
PageLimit == 3

Min(a, b) == IF a < b THEN a ELSE b

\* The dynamic field of the i-th table entry: its own object id, and its
\* name, which is the schema's address.
TableEntry(i) == [objectId |-> i, name |-> 100 + i]

\* The page the node returns for a listing that starts after `cursor`.
DynamicFieldsPage(entries, cursor) ==
    LET last == Min(Len(entries), cursor + PageLimit)
    IN  [data |-> SubSeq(entries, cursor + 1, last),
         nextCursor |-> last,
         hasNextPage |-> last < Len(entries)]

InitL ==
    /\ \E n \in 0..MaxEntries : tableEntries = [i \in 1..n |-> TableEntry(i)]
    /\ lsPc = "idle"
    /\ lsData = << >>
    /\ lsHasNext = FALSE
    /\ fetch = << >>
    /\ lsResult = "none"
    /\ lsError = "none"

IdleL ==
    /\ tableEntries = << >>
    /\ lsPc = "idle"
    /\ lsData = << >>
    /\ lsHasNext = FALSE
    /\ fetch = << >>
    /\ lsResult = "none"
    /\ lsError = "none"

\* Promise.allSettled-like join: waits for every promise and keeps the
\* values of those that fulfilled.
PromiseAllSettled(ps) ==
    IF \A i \in DOMAIN ps : ps[i].state \in {"fulfilled", "rejected"}
      THEN [state |-> "resolved",
            value |-> LET ok == SelectSeq(ps, LAMBDA p : p.state = "fulfilled")
                      IN  [i \in DOMAIN ok |-> ok[i].value]]
      ELSE [state |-> "joining", value |-> "none"]

\* Promise.all over the promises ps: rejected as soon as one is rejected,
\* resolved with every value, in order, once all are fulfilled.
PromiseAll(ps) ==
    IF \E i \in DOMAIN ps : ps[i].state = "rejected"
      THEN [state |-> "rejected", value |-> "none"]
      ELSE IF \A i \in DOMAIN ps : ps[i].state = "fulfilled"
             THEN [state |-> "resolved", value |-> [i \in DOMAIN ps |-> ps[i].value]]
             ELSE [state |-> "joining", value |-> "none"]

\* `await Promise.all(schemaPromises)` seen by getSchemas once the promises
\* stand as ps: a call that has settled stays settled.
Join(ps) ==
    IF lsPc = "joining"
      THEN /\ lsPc' = PromiseAll(ps).state
           /\ lsResult' = PromiseAll(ps).value
           /\ lsError' = IF PromiseAll(ps).state = "rejected" THEN "fetchFailed" ELSE "none"
      ELSE UNCHANGED <<lsPc, lsResult, lsError>>

\* getSchemas up to its first await: getSchemaRegistryTableId.
CallGetSchemas ==
    /\ lsPc = "idle"
    /\ lsPc' = "tableId"
    /\ UNCHANGED <<tableEntries, lsData, lsHasNext, fetch, lsResult, lsError>>

\* The table id resolved: getDynamicFields({parentId}) is invoked, with no
\* cursor.
TableIdResolve ==
    /\ lsPc = "tableId"
    /\ lsPc' = "listing"
    /\ UNCHANGED <<tableEntries, lsData, lsHasNext, fetch, lsResult, lsError>>

TableIdReject ==
    /\ lsPc = "tableId"
    /\ lsPc' = "rejected"
    /\ lsError' = "tableIdFailed"
    /\ UNCHANGED <<tableEntries, lsData, lsHasNext, fetch, lsResult>>

\* getDynamicFields resolved with the first page.  tableData.data.map
\* starts one async fetch per entry (each invokes getObject on the table
\* item) and getSchemas awaits Promise.all of them.
ListResolve ==
    /\ lsPc = "listing"
    /\ LET page == DynamicFieldsPage(tableEntries, 0)
           ps == [i \in DOMAIN page.data |-> [state |-> "tableItem", value |-> 0]]
       IN  /\ lsData' = page.data
           /\ lsHasNext' = page.hasNextPage
           /\ fetch' = ps
           /\ lsPc' = PromiseAll(ps).state
           /\ lsResult' = PromiseAll(ps).value
    /\ UNCHANGED <<tableEntries, lsError>>

ListReject ==
    /\ lsPc = "listing"
    /\ lsPc' = "rejected"
    /\ lsError' = "listFailed"
    /\ UNCHANGED <<tableEntries, lsData, lsHasNext, fetch, lsResult>>

\* The table item of entry i resolved: its fields.name is the schema id
\* and getSchema is invoked for it.
TableItemResolve(i) ==
    /\ i \in DOMAIN fetch
    /\ fetch[i].state = "tableItem"
    /\ fetch' = [fetch EXCEPT ![i] = [state |-> "schema", value |-> lsData[i].name]]
    /\ UNCHANGED <<tableEntries, lsPc, lsData, lsHasNext, lsResult, lsError>>

\* The table item read of entry i failed: getObject rejected, or the
\* response carried no data and reading .fields threw.
TableItemReject(i) ==
    /\ i \in DOMAIN fetch
    /\ fetch[i].state = "tableItem"
    /\ fetch' = [fetch EXCEPT ![i] = [state |-> "rejected", value |-> 0]]
    /\ Join(fetch')
    /\ UNCHANGED <<tableEntries, lsData, lsHasNext>>

\* getSchema of entry i resolved with the record of the schema.
SchemaResolve(i) ==
    /\ i \in DOMAIN fetch
    /\ fetch[i].state = "schema"
    /\ fetch' = [fetch EXCEPT ![i].state = "fulfilled"]
    /\ Join(fetch')
    /\ UNCHANGED <<tableEntries, lsData, lsHasNext>>

\* getSchema of entry i rejected (read or decode failure).
SchemaReject(i) ==
    /\ i \in DOMAIN fetch
    /\ fetch[i].state = "schema"
    /\ fetch' = [fetch EXCEPT ![i] = [state |-> "rejected", value |-> 0]]
    /\ Join(fetch')
    /\ UNCHANGED <<tableEntries, lsData, lsHasNext>>

(***************************************************************************)
(* Address resolution (src/utils.ts) and the registry read path            *)
(* (getSchemaRegistry, getSchemaRegistryTable in src/sui/schema.ts).       *)
(***************************************************************************)
Network == {"mainnet", "testnet", "devnet", "localnet"}

\* The configuration object of ./constants: one entry per deployment.
PACKAGES ==
    [mainnet |-> [PackageID |-> "0xpkg_mainnet",
                  SchemaRegistryID |-> "0xschemas_mainnet",
                  AttestationRegistryID |-> "0xattestations_mainnet"],
     testnet |-> [PackageID |-> "0xpkg_testnet",
                  SchemaRegistryID |-> "0xschemas_testnet",
                  AttestationRegistryID |-> "0xattestations_testnet"],
     devnet  |-> [PackageID |-> "0xpkg_devnet",
                  SchemaRegistryID |-> "0xschemas_devnet",
                  AttestationRegistryID |-> "0xattestations_devnet"]]

\* The highest version the registry's pointer takes in the model.
MaxVersion == 2

getPackageId(network) ==
    CASE network = "mainnet" -> Ok(packages.mainnet.PackageID)
      [] network = "testnet" -> Ok(packages.testnet.PackageID)
      [] network = "devnet"  -> Ok(packages.devnet.PackageID)
      [] OTHER -> Err("Invalid network")

\* A resolver whose default case falls back to devnet instead of throwing.
getSchemaRegistryIdFallback(network) ==
    CASE network = "mainnet" -> Ok(packages.mainnet.SchemaRegistryID)
      [] network = "testnet" -> Ok(packages.testnet.SchemaRegistryID)
      [] OTHER -> Ok(packages.devnet.SchemaRegistryID)

getSchemaRegistryId(network) ==
    CASE network = "mainnet" -> Ok(packages.mainnet.SchemaRegistryID)
      [] network = "testnet" -> Ok(packages.testnet.SchemaRegistryID)
      [] network = "devnet"  -> Ok(packages.devnet.SchemaRegistryID)
      [] OTHER -> Err("Invalid network")

getAttestationRegistryId(network) ==
    CASE network = "mainnet" -> Ok(packages.mainnet.AttestationRegistryID)
      [] network = "testnet" -> Ok(packages.testnet.AttestationRegistryID)
      [] network = "devnet"  -> Ok(packages.devnet.AttestationRegistryID)
      [] OTHER -> Err("Invalid network")

ResolverFns == {"getPackageId", "getSchemaRegistryId", "getAttestationRegistryId"}

RegistryFns == {"getSchemaRegistry", "getSchemaRegistryTable"}

Resolve(fn, network) ==
    CASE fn = "getPackageId" -> getPackageId(network)
      [] fn = "getSchemaRegistryId" -> getSchemaRegistryId(network)
      [] fn = "getAttestationRegistryId" -> getAttestationRegistryId(network)

\* The id of the schema_records table held by the dynamic field of version v.
TableIdOf(v) == 500 + v

IdleG ==
    /\ packages = PACKAGES
    /\ regObject = "ok"
    /\ regVersion = 1
    /\ dynFields = {1}
    /\ fieldShape = "ok"
    /\ rgFn = "none"
    /\ rgNetwork = "none"
    /\ rgPc = "idle"
    /\ rgRegistry = NoRegistry
    /\ rgOutcome = NoOutcome

InitG ==
    /\ packages = PACKAGES
    /\ regObject \in {"absent", "malformed", "ok"}
    /\ regVersion \in 1..MaxVersion
    /\ dynFields \in SUBSET (1..MaxVersion)
    /\ fieldShape \in {"ok", "malformed"}
    /\ rgFn = "none"
    /\ rgNetwork = "none"
    /\ rgPc = "idle"
    /\ rgRegistry = NoRegistry
    /\ rgOutcome = NoOutcome

\* A call of one of the three resolvers of utils.ts.
CallResolver(fn, network) ==
    /\ rgPc = "idle"
    /\ fn \in ResolverFns
    /\ rgFn' = fn
    /\ rgNetwork' = network
    /\ rgPc' = "done"
    /\ rgOutcome' = Resolve(fn, network)
    /\ UNCHANGED <<packages, regObject, regVersion, dynFields, fieldShape, rgRegistry>>

\* getSchemaRegistry, called directly or by getSchemaRegistryTable, up to
\* its await: the registry id is resolved (a throw rejects the call) and
\* getObject is invoked.
CallRegistry(fn, network) ==
    /\ rgPc = "idle"
    /\ fn \in RegistryFns
    /\ rgFn' = fn
    /\ rgNetwork' = network
    /\ IF getSchemaRegistryId(network).kind = "ok"
         THEN /\ rgPc' = "registry"
              /\ UNCHANGED rgOutcome
         ELSE /\ rgPc' = "done"
              /\ rgOutcome' = getSchemaRegistryId(network)
    /\ UNCHANGED <<packages, regObject, regVersion, dynFields, fieldShape, rgRegistry>>

\* What getSchemaRegistry makes of the getObject response.
DecodeRegistry ==
    CASE regObject = "absent" -> Err("Failed to fetch object")
      [] regObject = "malformed" -> Err("TypeError")
      [] OTHER -> Ok([id |-> "registry",
                      version |-> [id |-> "versioned", version |-> regVersion]])

\* getObject resolved.  getSchemaRegistry returns the registry or throws;
\* getSchemaRegistryTable, given the registry, invokes
\* getDynamicFieldObject for the version it names.
RegistryResolve ==
    /\ rgPc = "registry"
    /\ IF DecodeRegistry.kind = "ok" /\ rgFn = "getSchemaRegistryTable"
         THEN /\ rgPc' = "field"
              /\ rgRegistry' = DecodeRegistry.value
              /\ UNCHANGED rgOutcome
         ELSE /\ rgPc' = "done"
              /\ rgOutcome' = DecodeRegistry
              /\ UNCHANGED rgRegistry
    /\ UNCHANGED <<packages, regObject, regVersion, dynFields, fieldShape, rgFn, rgNetwork>>

\* getObject rejected.
RegistryReject ==
    /\ rgPc = "registry"
    /\ rgPc' = "done"
    /\ rgOutcome' = Err("RpcError")
    /\ UNCHANGED <<packages, regObject, regVersion, dynFields, fieldShape,
                   rgFn, rgNetwork, rgRegistry>>

\* What getSchemaRegistryTable makes of the getDynamicFieldObject response
\* for version v: a response without data (no such field) and a field of
\* another shape both end in reading a property of undefined.
DecodeField(fields, shape, v) ==
    CASE v \notin fields -> Err("TypeError")
      [] shape = "malformed" -> Err("TypeError")
      [] OTHER -> Ok(TableIdOf(v))

\* getDynamicFieldObject resolved.
FieldResolve ==
    /\ rgPc = "field"
    /\ rgPc' = "done"
    /\ rgOutcome' = DecodeField(dynFields, fieldShape, rgRegistry.version.version)
    /\ UNCHANGED <<packages, regObject, regVersion, dynFields, fieldShape,
                   rgFn, rgNetwork, rgRegistry>>

\* getDynamicFieldObject rejected.
FieldReject ==
    /\ rgPc = "field"
    /\ rgPc' = "done"
    /\ rgOutcome' = Err("RpcError")
    /\ UNCHANGED <<packages, regObject, regVersion, dynFields, fieldShape,
                   rgFn, rgNetwork, rgRegistry>>

(***************************************************************************)
(* Records: the schema write path and the read path of both chains         *)
(* (getSchema in src/sui/schema.ts; createSchema, getAptosSchema and       *)
(* getAptosAttestation in src/aptos/aas.ts).                               *)
(***************************************************************************)
\* The longest schema byte sequence written in the model.
MaxLen == 2

ByteValues == {0, 10, 255}

RECURSIVE SeqsUpTo(_, _)
SeqsUpTo(S, n) ==
    IF n = 0 THEN {<< >>}
    ELSE LET shorter == SeqsUpTo(S, n - 1)
         IN  shorter \cup {Append(q, x) : q \in shorter, x \in S}

Payloads == SeqsUpTo(ByteValues, MaxLen)

\* An optional value: absent, or present with a value.
None == << >>

Some(x) == <<x>>

\* BCS of a vector<u8>, the form tx.pure.vector('u8', bytes) and the Aptos
\* argument conversion give a byte array: its length, then its bytes.
BcsVectorU8(bytes) == <<Len(bytes)>> \o bytes

\* The chain's reading of a BCS vector<u8> argument.
BcsReadVectorU8(arg) == SubSeq(arg, 2, 1 + arg[1])

\* new Uint8Array(array): every element taken modulo 256.
Uint8Array(array) == [i \in DOMAIN array |-> array[i] % 256]

HexDigits ==
    <<"0", "1", "2", "3", "4", "5", "6", "7", "8", "9", "a", "b", "c", "d", "e", "f">>

RECURSIVE HexOfBytes(_)
HexOfBytes(bytes) ==
    IF bytes = << >> THEN << >>
    ELSE <<HexDigits[(Head(bytes) \div 16) + 1], HexDigits[(Head(bytes) % 16) + 1]>>
           \o HexOfBytes(Tail(bytes))

\* The Aptos node's JSON form of a vector<u8>: "0x" and two digits a byte.
HexString(bytes) == <<"0", "x">> \o HexOfBytes(bytes)

DigitValue(c) == CHOOSE d \in 0..15 : HexDigits[d + 1] = c

RECURSIVE BytesOfHex(_)
BytesOfHex(digits) ==
    IF digits = << >> THEN << >>
    ELSE <<16 * DigitValue(digits[1]) + DigitValue(digits[2])>>
           \o BytesOfHex(SubSeq(digits, 3, Len(digits)))

\* Hex.fromHexString(str).toUint8Array(): the optional 0x is dropped; an
\* empty or odd-length rest is a ParsingError.
HexFromHexString(str) ==
    LET input == IF Len(str) >= 2 /\ SubSeq(str, 1, 2) = <<"0", "x">>
                   THEN SubSeq(str, 3, Len(str))
                   ELSE str
    IN  IF Len(input) = 0 \/ Len(input) % 2 # 0
          THEN Err("ParsingError")
          ELSE Ok(BytesOfHex(input))

Base58Alphabet ==
    <<"1", "2", "3", "4", "5", "6", "7", "8", "9",
      "A", "B", "C", "D", "E", "F", "G", "H", "J", "K", "L", "M", "N", "P", "Q",
      "R", "S", "T", "U", "V", "W", "X", "Y", "Z",
      "a", "b", "c", "d", "e", "f", "g", "h", "i", "j", "k", "m", "n", "o", "p",
      "q", "r", "s", "t", "u", "v", "w", "x", "y", "z">>

RECURSIVE BigEndian(_)
BigEndian(bytes) ==
    IF bytes = << >> THEN 0
    ELSE 256 * BigEndian(SubSeq(bytes, 1, Len(bytes) - 1)) + bytes[Len(bytes)]

RECURSIVE Base58Digits(_)
Base58Digits(n) ==
    IF n = 0 THEN << >>
    ELSE Append(Base58Digits(n \div 58), Base58Alphabet[(n % 58) + 1])

RECURSIVE LeadingZeros(_)
LeadingZeros(bytes) ==
    IF bytes = << >> \/ Head(bytes) # 0 THEN 0 ELSE 1 + LeadingZeros(Tail(bytes))

\* bs58.encode(bytes): a "1" for every leading zero byte, then the number
\* the bytes spell, in base 58.
Bs58Encode(bytes) ==
    [i \in 1..LeadingZeros(bytes) |-> "1"] \o Base58Digits(BigEndian(bytes))

SuiIds == 1..4

AptosAddrs == 1..3

\* The digest the chain records in a schema it creates.
NewTxHash == <<0, 200>>

Absent == [kind |-> "absent"]

\* The objects the Sui chain holds before the client writes: nothing at 1
\* and 4, a package at 2, a schema record without a transaction hash at 3.
InitialSuiObjects ==
    [id \in SuiIds |->
       CASE id = 2 -> [kind |-> "package"]
         [] id = 3 -> [kind |-> "moveObject",
                       fields |-> [schema |-> <<7>>, tx_hash |-> None]]
         [] OTHER -> Absent]

\* The resources the Aptos chain holds before the client writes: nothing
\* at 1 and 3, a resource of another layout at 2.
InitialAptosSchemas ==
    [a \in AptosAddrs |-> IF a = 2 THEN [kind |-> "malformed"] ELSE Absent]

InitialAptosAttestations ==
    [a \in AptosAddrs |->
       CASE a = 2 -> [kind |-> "malformed"]
         [] a = 3 -> [kind |-> "attestation", time |-> 1, expiration_time |-> 0,
                      revocation_time |-> 0, revokable |-> TRUE,
                      data |-> <<10>>]
         [] OTHER -> Absent]

\* The id the object of a schema created by Schema.new gets: a free one.
NewSuiId == CHOOSE id \in SuiIds : InitialSuiObjects[id].kind = "absent"

\* The address the resource of a schema created by createSchema gets.
NewAptosAddr == CHOOSE a \in AptosAddrs : InitialAptosSchemas[a].kind = "absent"

\* The address the attestation created by createAttestation gets.
NewAttestationAddr ==
    CHOOSE a \in AptosAddrs : InitialAptosAttestations[a].kind = "absent"

NoCall == [fn |-> "none", key |-> 0, existed |-> FALSE]

NoWrite == [chain |-> "none", key |-> 0, bytes |-> << >>]

InitR ==
    /\ suiObjects = InitialSuiObjects
    /\ aptosSchemas = InitialAptosSchemas
    /\ aptosAttestations = InitialAptosAttestations
    /\ rdWritten = NoWrite
    /\ rdCall = NoCall
    /\ rdOutcome = NoOutcome

IdleR == InitR

\* Schema.new(schema, ...) through to the finalized transaction: the bytes
\* go out as a BCS vector<u8> argument of schema::new, and the chain
\* creates the schema object holding them and the transaction's digest.
SchemaNew(schema) ==
    /\ rdWritten = NoWrite
    /\ LET arg == BcsVectorU8(schema)
       IN  suiObjects' =
             [suiObjects EXCEPT ![NewSuiId] =
                [kind |-> "moveObject",
                 fields |-> [schema |-> BcsReadVectorU8(arg),
                             tx_hash |-> Some(NewTxHash)]]]
    /\ rdWritten' = [chain |-> "sui", key |-> NewSuiId, bytes |-> schema]
    /\ UNCHANGED <<aptosSchemas, aptosAttestations, rdCall, rdOutcome>>

\* Aas.createSchema(schema, ...) through to the committed transaction: the
\* bytes go out as a BCS vector<u8> argument of aas::create_schema, and
\* the chain creates the schema resource holding them.
CreateSchema(schema) ==
    /\ rdWritten = NoWrite
    /\ LET arg == BcsVectorU8(schema)
       IN  aptosSchemas' =
             [aptosSchemas EXCEPT ![NewAptosAddr] =
                [kind |-> "schema", schema |-> BcsReadVectorU8(arg)]]
    /\ rdWritten' = [chain |-> "aptos", key |-> NewAptosAddr, bytes |-> schema]
    /\ UNCHANGED <<suiObjects, aptosAttestations, rdCall, rdOutcome>>

\* The node's getObject response for an object.
GetObjectResponse(object) ==
    IF object.kind = "absent"
      THEN [error |-> Some("notExists"), data |-> None]
      ELSE [error |-> None, data |-> Some(object)]

\* getSchema without its response.error check.
getSchemaUnchecked(id, response) ==
    IF response.data = None \/ response.data[1].kind # "moveObject"
      THEN Err("Invalid object data")
      ELSE LET fields == response.data[1].fields
           IN  IF fields.tx_hash = None
                 THEN Err("TypeError")
                 ELSE Ok([schemaAddr |-> id,
                          schema |-> Uint8Array(fields.schema),
                          txHash |-> Some(Bs58Encode(fields.tx_hash[1]))])

\* getSchema, given the getObject response: the error check, the object
\* check, and the record built from the fields; bs58.encode of a missing
\* tx_hash throws a TypeError.
getSchema(id, response) ==
    IF response.error # None
      THEN Err("Failed to fetch object")
      ELSE IF response.data = None \/ response.data[1].kind # "moveObject"
             THEN Err("Invalid object data")
             ELSE LET fields == response.data[1].fields
                  IN  IF fields.tx_hash = None
                        THEN Err("TypeError")
                        ELSE Ok([schemaAddr |-> id,
                                 schema |-> Uint8Array(fields.schema),
                                 txHash |-> Some(Bs58Encode(fields.tx_hash[1]))])

\* The node's answer to a view call on a resource: for a missing resource
\* the call is rejected (the view aborted) or resolves with nothing.
ViewResponse(resource, aborts) ==
    IF resource.kind = "absent"
      THEN IF aborts THEN [state |-> "rejected", value |-> None]
                     ELSE [state |-> "resolved", value |-> None]
      ELSE [state |-> "resolved",
            value |-> Some(
              CASE resource.kind = "schema" ->
                     [kind |-> "schema", schema |-> HexString(resource.schema)]
                [] resource.kind = "attestation" ->
                     [kind |-> "attestation",
                      time |-> resource.time,
                      expiration_time |-> resource.expiration_time,
                      revocation_time |-> resource.revocation_time,
                      revokable |-> resource.revokable,
                      data |-> HexString(resource.data)]
                [] OTHER -> [kind |-> "malformed"])]

\* getAptosSchema, given the view call's outcome.
getAptosSchema(schemaAddr, response) ==
    IF response.state = "rejected"
      THEN Err("ViewAborted")
      ELSE IF response.value = None
             THEN Err("Schema not found")
             ELSE LET schema == response.value[1]
                  IN  IF schema.kind # "schema"
                        THEN Err("TypeError")
                        ELSE LET bytes == HexFromHexString(schema.schema)
                             IN  IF bytes.kind = "error"
                                   THEN bytes
                                   ELSE Ok([schemaAddr |-> schemaAddr,
                                            schema |-> bytes.value])

\* getAptosAttestation with revocationTime taken from the issue time.
getAptosAttestationWrongField(attestationAddr, response) ==
    IF response.state = "rejected"
      THEN Err("ViewAborted")
      ELSE IF response.value = None
             THEN Err("Attestation not found")
             ELSE LET attestation == response.value[1]
                  IN  IF attestation.kind # "attestation"
                        THEN Err("TypeError")
                        ELSE LET bytes == HexFromHexString(attestation.data)
                             IN  IF bytes.kind = "error"
                                   THEN bytes
                                   ELSE Ok([attestationAddr |-> attestationAddr,
                                            time |-> attestation.time,
                                            expirationTime |-> attestation.expiration_time,
                                            revocationTime |-> attestation.time,
                                            revokable |-> attestation.revokable,
                                            data |-> bytes.value])

\* getAptosAttestation, given the view call's outcome.
getAptosAttestation(attestationAddr, response) ==
    IF response.state = "rejected"
      THEN Err("ViewAborted")
      ELSE IF response.value = None
             THEN Err("Attestation not found")
             ELSE LET attestation == response.value[1]
                  IN  IF attestation.kind # "attestation"
                        THEN Err("TypeError")
                        ELSE LET bytes == HexFromHexString(attestation.data)
                             IN  IF bytes.kind = "error"
                                   THEN bytes
                                   ELSE Ok([attestationAddr |-> attestationAddr,
                                            time |-> attestation.time,
                                            expirationTime |-> attestation.expiration_time,
                                            revocationTime |-> attestation.revocation_time,
                                            revokable |-> attestation.revokable,
                                            data |-> bytes.value])

\* A call of getSchema(id): getObject resolves with the node's response,
\* or rejects.
ReadSuiSchema(id, rpcOk) ==
    /\ rdCall' = [fn |-> "getSchema", key |-> id,
                  existed |-> suiObjects[id].kind # "absent"]
    /\ rdOutcome' = IF rpcOk THEN getSchema(id, GetObjectResponse(suiObjects[id]))
                             ELSE Err("RpcError")
    /\ UNCHANGED <<suiObjects, aptosSchemas, aptosAttestations, rdWritten>>

\* A call of getAptosSchema(network, schemaAddr).
ReadAptosSchema(addr, rpcOk, aborts) ==
    /\ rdCall' = [fn |-> "getAptosSchema", key |-> addr,
                  existed |-> aptosSchemas[addr].kind # "absent"]
    /\ rdOutcome' = IF rpcOk
                      THEN getAptosSchema(addr, ViewResponse(aptosSchemas[addr], aborts))
                      ELSE Err("RpcError")
    /\ UNCHANGED <<suiObjects, aptosSchemas, aptosAttestations, rdWritten>>

\* A call of getAptosAttestation(network, attestationAddr).
ReadAptosAttestation(addr, rpcOk, aborts) ==
    /\ rdCall' = [fn |-> "getAptosAttestation", key |-> addr,
                  existed |-> aptosAttestations[addr].kind # "absent"]
    /\ rdOutcome' = IF rpcOk
                      THEN getAptosAttestation(addr,
                             ViewResponse(aptosAttestations[addr], aborts))
                      ELSE Err("RpcError")
    /\ UNCHANGED <<suiObjects, aptosSchemas, aptosAttestations, rdWritten>>

(***************************************************************************)
(* One attestation: createAttestation, revokeAttestation and               *)
(* getAttestation (src/aptos/aas.ts) against the aas module on chain.      *)
(***************************************************************************)
\* The highest ledger time of the model.
MaxTime == 3

\* The most reads of the attestation in one behaviour.
MaxReads == 3

AttestationPayloads == {<< >>, <<10>>}

NoTx == [op |-> "none", data |-> << >>, revokable |-> FALSE]

IdleA ==
    /\ chainNow = 1
    /\ atTx = NoTx
    /\ atRevokedAt = 0
    /\ atReads = << >>

InitA == IdleA

\* createAttestation(recipient, schemaAddr, refAttestation, 0, revokable,
\* data) up to the submission: the payload goes out as a BCS vector<u8>.
CreateAttestationSubmit(data, revokable) ==
    /\ atTx = NoTx
    /\ atTx' = [op |-> "create_attestation", data |-> BcsVectorU8(data),
                revokable |-> revokable]
    /\ UNCHANGED <<chainNow, atRevokedAt, atReads, varsR>>

\* revokeAttestation(schemaAddr, attestationAddr) up to the submission.
RevokeAttestationSubmit ==
    /\ atTx = NoTx
    /\ atTx' = [op |-> "revoke_attestation", data |-> << >>, revokable |-> FALSE]
    /\ UNCHANGED <<chainNow, atRevokedAt, atReads, varsR>>

\* The chain commits the submitted transaction (and the client's
\* waitForTransaction returns or throws).  aas::create_attestation creates
\* the attestation, unrevoked; aas::revoke_attestation stamps an existing,
\* revokable, unrevoked attestation with the ledger time; in every other
\* case the transaction aborts and changes nothing.
ChainCommit ==
    /\ atTx # NoTx
    /\ LET att == aptosAttestations[NewAttestationAddr]
       IN  CASE atTx.op = "create_attestation" /\ att.kind = "absent" ->
                  /\ aptosAttestations' =
                       [aptosAttestations EXCEPT ![NewAttestationAddr] =
                          [kind |-> "attestation", time |-> chainNow,
                           expiration_time |-> 0, revocation_time |-> 0,
                           revokable |-> atTx.revokable,
                           data |-> BcsReadVectorU8(atTx.data)]]
                  /\ UNCHANGED atRevokedAt
             [] /\ atTx.op = "revoke_attestation"
                /\ att.kind = "attestation"
                /\ att.revokable
                /\ att.revocation_time = 0 ->
                  /\ aptosAttestations' =
                       [aptosAttestations EXCEPT
                          ![NewAttestationAddr].revocation_time = chainNow]
                  /\ atRevokedAt' = chainNow
             [] OTHER -> UNCHANGED <<aptosAttestations, atRevokedAt>>
    /\ atTx' = NoTx
    /\ UNCHANGED <<chainNow, atReads, suiObjects, aptosSchemas, rdWritten, rdCall, rdOutcome>>

\* The ledger time advances.
Tick ==
    /\ chainNow < MaxTime
    /\ chainNow' = chainNow + 1
    /\ UNCHANGED <<atTx, atRevokedAt, atReads, varsR>>

\* getAttestation(attestationAddr) of the attestation: the read's outcome,
\* and for a read that returned, the revocationTime it returned and
\* whether a revocation had committed.
GetAttestation(rpcOk, aborts) ==
    /\ Len(atReads) < MaxReads
    /\ ReadAptosAttestation(NewAttestationAddr, rpcOk, aborts)
    /\ atReads' = IF rdOutcome'.kind = "ok"
                    THEN Append(atReads, [revocationTime |-> rdOutcome'.value.revocationTime,
                                          revoked |-> atRevokedAt # 0])
                    ELSE atReads
    /\ UNCHANGED <<chainNow, atTx, atRevokedAt>>

(***************************************************************************)
(* Specifications.                                                         *)
(***************************************************************************)
OthersW == UNCHANGED <<varsL, varsG, varsR, varsA>>

OthersL == UNCHANGED <<varsW, varsG, varsR, varsA>>

OthersG == UNCHANGED <<varsW, varsL, varsR, varsA>>

OthersR == UNCHANGED <<varsW, varsL, varsG, varsA>>

OthersA == UNCHANGED <<varsW, varsL, varsG>>

NextW ==
    \/ \E op \in SuiOps, ok \in BOOLEAN : CallSui(op, ok) /\ OthersW
    \/ \E op \in AptosOps : CallAptos(op) /\ OthersW
    \/ BuildResolve /\ OthersW
    \/ BuildReject /\ OthersW
    \/ SubmitResolve /\ OthersW
    \/ \E reached \in BOOLEAN : SubmitReject(reached) /\ OthersW
    \/ \E success \in BOOLEAN : ChainFinalize(success) /\ OthersW
    \/ WaitResolve /\ OthersW
    \/ WaitReject /\ OthersW

InitWrite == InitW /\ IdleL /\ IdleG /\ IdleR /\ IdleA

SpecWrite == InitWrite /\ [][NextW]_vars

NextL ==
    \/ CallGetSchemas /\ OthersL
    \/ TableIdResolve /\ OthersL
    \/ TableIdReject /\ OthersL
    \/ ListResolve /\ OthersL
    \/ ListReject /\ OthersL
    \/ \E i \in 1..MaxEntries : TableItemResolve(i) /\ OthersL
    \/ \E i \in 1..MaxEntries : TableItemReject(i) /\ OthersL
    \/ \E i \in 1..MaxEntries : SchemaResolve(i) /\ OthersL
    \/ \E i \in 1..MaxEntries : SchemaReject(i) /\ OthersL

InitList == IdleW /\ InitL /\ IdleG /\ IdleR /\ IdleA

SpecList == InitList /\ [][NextL]_vars

NextG ==
    \/ \E fn \in ResolverFns, n \in Network : CallResolver(fn, n) /\ OthersG
    \/ \E fn \in RegistryFns, n \in Network : CallRegistry(fn, n) /\ OthersG
    \/ RegistryResolve /\ OthersG
    \/ RegistryReject /\ OthersG
    \/ FieldResolve /\ OthersG
    \/ FieldReject /\ OthersG

InitRegistry == IdleW /\ IdleL /\ InitG /\ IdleR /\ IdleA

SpecRegistry == InitRegistry /\ [][NextG]_vars

NextR ==
    \/ \E schema \in Payloads : SchemaNew(schema) /\ OthersR
    \/ \E schema \in Payloads : CreateSchema(schema) /\ OthersR
    \/ \E id \in SuiIds, rpcOk \in BOOLEAN : ReadSuiSchema(id, rpcOk) /\ OthersR
    \/ \E a \in AptosAddrs, rpcOk, aborts \in BOOLEAN :
          ReadAptosSchema(a, rpcOk, aborts) /\ OthersR
    \/ \E a \in AptosAddrs, rpcOk, aborts \in BOOLEAN :
          ReadAptosAttestation(a, rpcOk, aborts) /\ OthersR

InitRecords == IdleW /\ IdleL /\ IdleG /\ InitR /\ IdleA

SpecRecords == InitRecords /\ [][NextR]_vars

NextA ==
    \/ \E data \in AttestationPayloads, revokable \in BOOLEAN :
          CreateAttestationSubmit(data, revokable) /\ OthersA
    \/ RevokeAttestationSubmit /\ OthersA
    \/ ChainCommit /\ OthersA
    \/ Tick /\ OthersA
    \/ \E rpcOk, aborts \in BOOLEAN : GetAttestation(rpcOk, aborts) /\ OthersA

InitAttest == IdleW /\ IdleL /\ IdleG /\ InitR /\ InitA

SpecAttest == InitAttest /\ [][NextA]_vars

(***************************************************************************)
(* Claims.                                                                 *)
(***************************************************************************)
\* C1: a write operation returns to its caller only after the chain has
\* reported finality of the transaction the call submitted: the returned
\* value is waitForTransaction's response and the transaction is final.
C1_ReturnOnlyAfterFinality ==
    wPc = "returned" => (wReceipt = "wait" /\ Final(chainTx))

NumSubmits == Cardinality({i \in DOMAIN wLog : wLog[i] = "submit"})

Failures == {"buildFailed", "submitFailed", "waitFailed"}

\* C6: a write call submits at most one transaction; a failure of the
\* build, the submission or the wait is the last thing the call does, and
\* it is the error the caller's promise rejects with.
C6_NoRetry ==
    /\ NumSubmits <= 1
    /\ \A i \in DOMAIN wLog :
         wLog[i] \in Failures =>
           /\ i = Len(wLog)
           /\ wPc = "rejected"
           /\ wError = wLog[i]
    /\ wPc = "rejected" => wError \in Failures

\* C6 witness: a submission failed and the call rejected with that failure
\* after one submission.
C6_Witness ==
    /\ wPc = "rejected"
    /\ wLog = <<"build", "submit", "submitFailed">>
    /\ wError = "submitFailed"

AllKeys == {tableEntries[i].name : i \in DOMAIN tableEntries}

\* C2: getSchemas returns the entries of every page of the listing: each
\* key of the table once, none left out.
C2_AllPagesListed ==
    lsPc = "resolved" =>
      /\ {lsResult[i] : i \in DOMAIN lsResult} = AllKeys
      /\ Len(lsResult) = Len(tableEntries)

\* C3: getSchemas resolves with a list only when every per-entry fetch
\* fulfilled, and the list holds every fetched record; once a fetch has
\* rejected the call is rejected and the caller holds no list.
C3_FailFast ==
    /\ lsPc = "resolved" =>
         /\ \A i \in DOMAIN fetch : fetch[i].state = "fulfilled"
         /\ lsResult = [i \in DOMAIN fetch |-> fetch[i].value]
    /\ (\E i \in DOMAIN fetch : fetch[i].state = "rejected") =>
         /\ lsPc = "rejected"
         /\ lsResult = "none"
    /\ lsPc # "resolved" => lsResult = "none"

\* C3 witness: one fetch fulfilled, another rejected, and the call is
\* rejected with no list.
C3_Witness ==
    /\ lsPc = "rejected"
    /\ lsResult = "none"
    /\ \E i, j \in DOMAIN fetch :
         fetch[i].state = "fulfilled" /\ fetch[j].state = "rejected"

\* The error resolveCurrentTable is to raise for a version with no field.
StaleVersionError == "StaleVersionError"

\* The error a dynamic field of an unexpected shape ends in.
GenericDecodeFailure == DecodeField({1}, "malformed", 1).error

\* getSchemaRegistryTable has read the registry and the response of
\* getDynamicFieldObject for its version, and no field has that version.
StaleVersionRead ==
    /\ rgPc = "done"
    /\ rgFn = "getSchemaRegistryTable"
    /\ rgRegistry # NoRegistry
    /\ rgOutcome.error # "RpcError"
    /\ regVersion \notin dynFields

\* C4: getSchemaRegistryTable on a registry whose version has no dynamic
\* field fails with StaleVersionError, an error other than the one a
\* decode failure gives, and returns no table handle.
C4_StaleVersionError ==
    StaleVersionRead =>
      /\ rgOutcome.kind = "error"
      /\ rgOutcome.value = "none"
      /\ rgOutcome.error = StaleVersionError
      /\ rgOutcome.error # GenericDecodeFailure

\* The networks the configuration has an entry for.
ConfiguredNetworks == DOMAIN PACKAGES

\* The error the resolvers throw for a network outside the configuration.
ConfigurationError == "Invalid network"

\* C5: a resolver returns a non-empty identifier for every configured
\* network, throws the configuration error and returns nothing for every
\* other network, and leaves the configuration as it was.
C5_AddressResolution ==
    (rgPc = "done" /\ rgFn \in ResolverFns) =>
      /\ IF rgNetwork \in ConfiguredNetworks
           THEN /\ rgOutcome.kind = "ok"
                /\ rgOutcome.value # ""
                /\ rgOutcome.value # "none"
           ELSE /\ rgOutcome.kind = "error"
                /\ rgOutcome.error = ConfigurationError
                /\ rgOutcome.value = "none"
      /\ packages = PACKAGES

\* C5 witness: getSchemaRegistryId was called for localnet, a network of
\* the Network type with no configuration, and threw.
C5_Witness ==
    /\ rgPc = "done"
    /\ rgFn = "getSchemaRegistryId"
    /\ rgNetwork = "localnet"
    /\ rgOutcome.kind = "error"

\* The read has had the node's answer (the RPC itself did not fail).
ReadAnswered == rdCall.fn # "none" /\ rdOutcome.error # "RpcError"

\* The read was of the schema the client created, after its creation,
\* through the read function of the chain it was created on.
ReadOfWritten ==
    /\ ReadAnswered
    /\ rdWritten.chain # "none"
    /\ rdCall.key = rdWritten.key
    /\ rdCall.existed
    /\ rdCall.fn = (IF rdWritten.chain = "sui" THEN "getSchema" ELSE "getAptosSchema")

\* C8: a schema created with bytes B and read back yields a record whose
\* schema field is exactly B.
C8_SchemaRoundTrip ==
    ReadOfWritten =>
      /\ rdOutcome.kind = "ok"
      /\ rdOutcome.value.schema = rdWritten.bytes

\* The errors a read gives for a key with no record.
NotFoundErrors ==
    {"Failed to fetch object", "Schema not found", "Attestation not found", "ViewAborted"}

\* The errors a read gives for a record of an unexpected shape.
DecodeErrors == {"Invalid object data", "TypeError", "ParsingError"}

ReadOfRecordWithoutTxHash ==
    /\ ReadAnswered
    /\ rdCall.fn = "getSchema"
    /\ suiObjects[rdCall.key].kind = "moveObject"
    /\ suiObjects[rdCall.key].fields.tx_hash = None

\* C10: getSchema of a well-formed record with no transaction hash
\* succeeds and returns the record with txHash unset.
C10_TxHashOptional ==
    ReadOfRecordWithoutTxHash =>
      /\ rdOutcome.kind = "ok"
      /\ rdOutcome.value.txHash = None

=============================================================================
